---- MODULE Spec2Model ----
(***************************************************************************)
(* Model of lightning/src/onion_message/offers.rs: the OffersMessage       *)
(* registry (is_known_type, tlv_type) and codec (write, parse, read).      *)
(*                                                                         *)
(* Spec      one call at a time: is_known_type, tlv_type, write, read.     *)
(* SpecConc  several threads, each running one read call step by step,     *)
(*           sharing only the logger.                                      *)
(***************************************************************************)
EXTENDS Integers, Sequences, FiniteSets, TLC

VARIABLES log, last, nDowngraded, pc, args, bytes, result

vars == <<log, last, nDowngraded, pc, args, bytes, result>>

(***************************************************************************)
(* Bounds of the model.                                                    *)
(***************************************************************************)
MaxByte == 1
MaxLen == 2
MaxLog == 2
MaxTypeCode == 69
NumThreads == 2

(***************************************************************************)
(* TLV record types (offers.rs:25-27).                                     *)
(***************************************************************************)
INVOICE_REQUEST_TLV_TYPE == 64
INVOICE_TLV_TYPE == 66
INVOICE_ERROR_TLV_TYPE == 68

(***************************************************************************)
(* Input domains.                                                          *)
(***************************************************************************)
Byte == 0..MaxByte
TypeCodes == {0, 1} \cup (63..MaxTypeCode)
Payloads == UNION {[1..n -> Byte] : n \in 0..MaxLen}
\* A byte source: the bytes it delivers, or a source whose read fails.
Sources == {[data |-> p, fails |-> FALSE] : p \in Payloads}
             \cup {[data |-> <<>>, fails |-> TRUE]}
Threads == 1..NumThreads

Ok(v) == [ok |-> TRUE, val |-> v]
Err(e) == [ok |-> FALSE, err |-> e]

(***************************************************************************)
(* The message kinds.  Their bodies live in crate::offers; they are        *)
(* modelled from the specification: a body is a record, its encoding a     *)
(* byte sequence.                                                          *)
(***************************************************************************)
SignRequest(p) == p
SignInvoice(h) == (h + 1) % (MaxByte + 1)

InvoiceRequests == {[payer_id |-> p, signature |-> SignRequest(p)] : p \in Byte \ {0}}
Invoices == {[payment_hash |-> h, signature |-> SignInvoice(h)] : h \in Byte \ {0}}
MaxErrLen == IF MaxLen - 1 < MaxByte THEN MaxLen - 1 ELSE MaxByte
InvoiceErrors == {[message |-> m] : m \in UNION {[1..n -> Byte] : n \in 0..MaxErrLen}}

\* enum OffersMessage (offers.rs:42-55)
OffersMessage == {[kind |-> "InvoiceRequest", body |-> b] : b \in InvoiceRequests}
                   \cup {[kind |-> "Invoice", body |-> b] : b \in Invoices}
                   \cup {[kind |-> "InvoiceError", body |-> b] : b \in InvoiceErrors}

\* InvoiceRequest::write / Invoice::write / InvoiceError::write
InvoiceRequest_write(m) == <<m.payer_id, m.signature>>
Invoice_write(m) == <<m.payment_hash, m.signature>>
InvoiceError_write(m) == <<Len(m.message)>> \o m.message

\* InvoiceRequest::try_from(bytes): Result<InvoiceRequest, ParseError>
InvoiceRequest_try_from(b) ==
  IF Len(b) < 2 THEN Err([class |-> "Decode", e |-> "ShortRead"])
  ELSE IF Len(b) > 2 THEN Err([class |-> "Decode", e |-> "InvalidValue"])
  ELSE IF b[1] = 0 THEN Err([class |-> "InvalidSemantics", e |-> "MissingPayerId"])
  ELSE IF b[2] # SignRequest(b[1])
    THEN Err([class |-> "InvalidSignature", e |-> "IncorrectSignature"])
  ELSE Ok([payer_id |-> b[1], signature |-> b[2]])

\* Invoice::try_from(bytes): Result<Invoice, ParseError>
Invoice_try_from(b) ==
  IF Len(b) < 2 THEN Err([class |-> "Decode", e |-> "ShortRead"])
  ELSE IF Len(b) > 2 THEN Err([class |-> "Decode", e |-> "InvalidValue"])
  ELSE IF b[1] = 0 THEN Err([class |-> "InvalidSemantics", e |-> "MissingPaymentHash"])
  ELSE IF b[2] # SignInvoice(b[1])
    THEN Err([class |-> "InvalidSignature", e |-> "IncorrectSignature"])
  ELSE Ok([payment_hash |-> b[1], signature |-> b[2]])

\* InvoiceError::read(r): Result<InvoiceError, DecodeError>, a length-prefixed
\* record read directly from the source.
InvoiceError_read(r) ==
  IF r.fails THEN Err("Io")
  ELSE IF Len(r.data) = 0 THEN Err("ShortRead")
  ELSE IF Len(r.data) < 1 + r.data[1] THEN Err("ShortRead")
  ELSE Ok([message |-> SubSeq(r.data, 2, 1 + r.data[1])])

\* io::Read::read_to_end(&mut bytes)
read_to_end(r) == IF r.fails THEN Err("Io") ELSE Ok(r.data)

(***************************************************************************)
(* impl OffersMessage (offers.rs:57-82)                                    *)
(***************************************************************************)
is_known_type_NoError(t) ==
  t \in {INVOICE_REQUEST_TLV_TYPE, INVOICE_TLV_TYPE}

is_known_type(t) ==
  CASE t = INVOICE_REQUEST_TLV_TYPE -> TRUE
    [] t = INVOICE_TLV_TYPE -> TRUE
    [] t = INVOICE_ERROR_TLV_TYPE -> TRUE
    [] OTHER -> FALSE

tlv_type_InvoiceAsRequest(m) ==
  CASE m.kind = "InvoiceRequest" -> INVOICE_REQUEST_TLV_TYPE
    [] m.kind = "Invoice" -> INVOICE_REQUEST_TLV_TYPE
    [] m.kind = "InvoiceError" -> INVOICE_ERROR_TLV_TYPE

tlv_type(m) ==
  CASE m.kind = "InvoiceRequest" -> INVOICE_REQUEST_TLV_TYPE
    [] m.kind = "Invoice" -> INVOICE_TLV_TYPE
    [] m.kind = "InvoiceError" -> INVOICE_ERROR_TLV_TYPE

\* `T::try_from(bytes)?` wrapped in Ok(Self::Kind(..))
Wrap(kind, r) == IF r.ok THEN Ok([kind |-> kind, body |-> r.val]) ELSE r

parse_Swapped(t, b) ==
  CASE t = INVOICE_REQUEST_TLV_TYPE -> Wrap("Invoice", Invoice_try_from(b))
    [] t = INVOICE_TLV_TYPE -> Wrap("InvoiceRequest", InvoiceRequest_try_from(b))
    [] OTHER -> Err([class |-> "Decode", e |-> "InvalidValue"])

parse_Fallthrough(t, b) ==
  CASE t = INVOICE_TLV_TYPE -> Wrap("Invoice", Invoice_try_from(b))
    [] OTHER -> Wrap("InvoiceRequest", InvoiceRequest_try_from(b))

parse(t, b) ==
  CASE t = INVOICE_REQUEST_TLV_TYPE -> Wrap("InvoiceRequest", InvoiceRequest_try_from(b))
    [] t = INVOICE_TLV_TYPE -> Wrap("Invoice", Invoice_try_from(b))
    [] OTHER -> Err([class |-> "Decode", e |-> "InvalidValue"])

(***************************************************************************)
(* impl Writeable for OffersMessage (offers.rs:84-92)                      *)
(***************************************************************************)
write(m) ==
  CASE m.kind = "InvoiceRequest" -> InvoiceRequest_write(m.body)
    [] m.kind = "Invoice" -> Invoice_write(m.body)
    [] m.kind = "InvoiceError" -> InvoiceError_write(m.body)

(***************************************************************************)
(* impl ReadableArgs<(u64, &L)> for OffersMessage (offers.rs:94-118)       *)
(*                                                                         *)
(* A call's outcome is a record:                                           *)
(*   panicked  the call unwound instead of returning                       *)
(*   ret       the returned Result (when it returned)                      *)
(*   logs      the lines it handed to the logger                           *)
(*   buffered  it called read_to_end                                       *)
(*   parsed    the class of parse's result, "none" if parse was not called *)
(***************************************************************************)
\* log_trace!(logger, "Invalid ... for TLV type {}: {:?}", tlv_type, e)
log_trace(text, t, e) == [level |-> "Trace", text |-> text, tlv_type |-> t, detail |-> e]

Returned(ret, logs, buffered, parsed) ==
  [panicked |-> FALSE, ret |-> ret, logs |-> logs, buffered |-> buffered, parsed |-> parsed]
Panic(buffered) ==
  [panicked |-> TRUE, ret |-> Err("panic"), logs |-> <<>>, buffered |-> buffered,
   parsed |-> "none"]

match_parse_DecodeCollapsed(t, pr) ==
  IF pr.ok THEN Returned(Ok(pr.val), <<>>, TRUE, "Ok")
  ELSE CASE pr.err.class = "Decode" ->
              Returned(Err("InvalidValue"), <<>>, TRUE, "Decode")
         [] pr.err.class = "InvalidSemantics" ->
              Returned(Err("InvalidValue"),
                       <<log_trace("Invalid semantics", t, pr.err.e)>>, TRUE,
                       "InvalidSemantics")
         [] pr.err.class = "InvalidSignature" ->
              Returned(Err("InvalidValue"),
                       <<log_trace("Invalid signature", t, pr.err.e)>>, TRUE,
                       "InvalidSignature")
         [] OTHER -> Returned(Err("InvalidValue"), <<>>, TRUE, pr.err.class)

match_parse_SilentSignature(t, pr) ==
  IF pr.ok THEN Returned(Ok(pr.val), <<>>, TRUE, "Ok")
  ELSE CASE pr.err.class = "Decode" -> Returned(Err(pr.err.e), <<>>, TRUE, "Decode")
         [] pr.err.class = "InvalidSemantics" ->
              Returned(Err("InvalidValue"),
                       <<log_trace("Invalid semantics", t, pr.err.e)>>, TRUE,
                       "InvalidSemantics")
         [] OTHER -> Returned(Err("InvalidValue"), <<>>, TRUE, pr.err.class)

match_parse_LogsDecode(t, pr) ==
  IF pr.ok THEN Returned(Ok(pr.val), <<>>, TRUE, "Ok")
  ELSE CASE pr.err.class = "Decode" ->
              Returned(Err(pr.err.e), <<log_trace("Decode error", t, pr.err.e)>>, TRUE,
                       "Decode")
         [] pr.err.class = "InvalidSemantics" ->
              Returned(Err("InvalidValue"),
                       <<log_trace("Invalid semantics", t, pr.err.e)>>, TRUE,
                       "InvalidSemantics")
         [] pr.err.class = "InvalidSignature" ->
              Returned(Err("InvalidValue"),
                       <<log_trace("Invalid signature", t, pr.err.e)>>, TRUE,
                       "InvalidSignature")
         [] OTHER -> Returned(Err("InvalidValue"), <<>>, TRUE, pr.err.class)

\* match Self::parse(tlv_type, bytes) { ... }  (offers.rs:104-116)
match_parse(t, pr) ==
  IF pr.ok THEN Returned(Ok(pr.val), <<>>, TRUE, "Ok")
  ELSE CASE pr.err.class = "Decode" -> Returned(Err(pr.err.e), <<>>, TRUE, "Decode")
         [] pr.err.class = "InvalidSemantics" ->
              Returned(Err("InvalidValue"),
                       <<log_trace("Invalid semantics", t, pr.err.e)>>, TRUE,
                       "InvalidSemantics")
         [] pr.err.class = "InvalidSignature" ->
              Returned(Err("InvalidValue"),
                       <<log_trace("Invalid signature", t, pr.err.e)>>, TRUE,
                       "InvalidSignature")
         [] OTHER -> Returned(Err("InvalidValue"), <<>>, TRUE, pr.err.class)

\* return Ok(Self::InvoiceError(InvoiceError::read(r)?))  (offers.rs:98)
read_direct(r) ==
  Returned(Wrap("InvoiceError", InvoiceError_read(r)), <<>>, FALSE, "none")

\* let mut bytes = Vec::new(); r.read_to_end(&mut bytes).unwrap(); match ...
\* (offers.rs:101-116)
read_buffered(r, t) ==
  LET b == read_to_end(r)
  IN IF b.ok THEN match_parse(t, parse(t, b.val)) ELSE Panic(TRUE)

read_NoBypass(r, t) == read_buffered(r, t)

read(r, t) ==
  IF t = INVOICE_ERROR_TLV_TYPE THEN read_direct(r) ELSE read_buffered(r, t)

(***************************************************************************)
(* Spec: one call at a time.  `last` records the latest call (its          *)
(* arguments and what it returned), `log` is the logger's sink and         *)
(* nDowngraded counts the read calls whose parse result was invalid        *)
(* semantics or an invalid signature.                                      *)
(***************************************************************************)
Downgraded == {"InvalidSemantics", "InvalidSignature"}

Idle == [t \in Threads |-> "idle"]
NoArgs == [t \in Threads |-> [r |-> [data |-> <<>>, fails |-> FALSE], tlv_type |-> 0]]
NoBytes == [t \in Threads |-> <<>>]
NoResult == [t \in Threads |-> Returned(Err("none"), <<>>, FALSE, "none")]

Init ==
  /\ log = <<>>
  /\ last = [op |-> "none"]
  /\ nDowngraded = 0
  /\ pc = Idle
  /\ args = NoArgs
  /\ bytes = NoBytes
  /\ result = NoResult

\* A panic in the only thread ends the process.
Panicked == last.op = "read" /\ last.out.panicked

IsKnownTypeCall ==
  /\ ~Panicked
  /\ \E c \in TypeCodes :
       last' = [op |-> "is_known_type", tlv_type |-> c, ret |-> is_known_type(c),
                emitted |-> 0]
  /\ UNCHANGED <<log, nDowngraded, pc, args, bytes, result>>

TlvTypeCall ==
  /\ ~Panicked
  /\ \E m \in OffersMessage :
       last' = [op |-> "tlv_type", msg |-> m, ret |-> tlv_type(m), emitted |-> 0]
  /\ UNCHANGED <<log, nDowngraded, pc, args, bytes, result>>

WriteCall ==
  /\ ~Panicked
  /\ \E m \in OffersMessage :
       last' = [op |-> "write", msg |-> m, ret |-> write(m), emitted |-> 0]
  /\ UNCHANGED <<log, nDowngraded, pc, args, bytes, result>>

ReadCall ==
  /\ ~Panicked
  /\ \E r \in Sources, t \in TypeCodes :
       \E o \in {read(r, t)} :
          /\ Len(log) + Len(o.logs) <= MaxLog
          /\ log' = log \o o.logs
          /\ last' = [op |-> "read", tlv_type |-> t, r |-> r, out |-> o,
                      emitted |-> Len(o.logs)]
          /\ nDowngraded' = nDowngraded + (IF o.parsed \in Downgraded THEN 1 ELSE 0)
  /\ UNCHANGED <<pc, args, bytes, result>>

Next == IsKnownTypeCall \/ TlvTypeCall \/ WriteCall \/ ReadCall

Spec == Init /\ [][Next]_vars

(***************************************************************************)
(* SpecConc: each thread runs one read call, one step of offers.rs:95-117  *)
(* at a time.  The buffer `bytes` is a local of the call; the logger is    *)
(* the only thing the calls share.                                         *)
(***************************************************************************)
ConcInputs ==
  {[r |-> [data |-> <<1, 1>>, fails |-> FALSE], tlv_type |-> INVOICE_REQUEST_TLV_TYPE],
   [r |-> [data |-> <<1, 0>>, fails |-> FALSE], tlv_type |-> INVOICE_TLV_TYPE],
   [r |-> [data |-> <<1, 1>>, fails |-> FALSE], tlv_type |-> INVOICE_TLV_TYPE],
   [r |-> [data |-> <<0, 1>>, fails |-> FALSE], tlv_type |-> INVOICE_REQUEST_TLV_TYPE],
   [r |-> [data |-> <<1>>, fails |-> FALSE], tlv_type |-> INVOICE_REQUEST_TLV_TYPE],
   [r |-> [data |-> <<1, 0>>, fails |-> FALSE], tlv_type |-> INVOICE_ERROR_TLV_TYPE],
   [r |-> [data |-> <<1>>, fails |-> FALSE], tlv_type |-> INVOICE_ERROR_TLV_TYPE + 1],
   [r |-> [data |-> <<>>, fails |-> TRUE], tlv_type |-> INVOICE_REQUEST_TLV_TYPE]}

SharedSlot(t) == 1

\* `let mut bytes = Vec::new()`: the buffer belongs to the call.
BufferSlot(t) == t

\* read(r, (tlv_type, logger)) is entered (offers.rs:95-96)
CallRead(t) ==
  /\ pc[t] = "idle"
  /\ \E a \in ConcInputs : args' = [args EXCEPT ![t] = a]
  /\ pc' = [pc EXCEPT ![t] = "entered"]
  /\ UNCHANGED <<log, last, nDowngraded, bytes, result>>

\* offers.rs:97-101
Dispatch(t) ==
  /\ pc[t] = "entered"
  /\ IF args[t].tlv_type = INVOICE_ERROR_TLV_TYPE
       THEN /\ result' = [result EXCEPT ![t] = read_direct(args[t].r)]
            /\ pc' = [pc EXCEPT ![t] = "done"]
            /\ UNCHANGED bytes
       ELSE /\ bytes' = [bytes EXCEPT ![BufferSlot(t)] = <<>>]
            /\ pc' = [pc EXCEPT ![t] = "buffering"]
            /\ UNCHANGED result
  /\ UNCHANGED <<log, last, nDowngraded, args>>

\* offers.rs:102
ReadToEnd(t) ==
  /\ pc[t] = "buffering"
  /\ LET b == read_to_end(args[t].r)
     IN IF b.ok
          THEN /\ bytes' = [bytes EXCEPT ![BufferSlot(t)] = @ \o b.val]
               /\ pc' = [pc EXCEPT ![t] = "parsing"]
               /\ UNCHANGED result
          ELSE /\ result' = [result EXCEPT ![t] = Panic(TRUE)]
               /\ pc' = [pc EXCEPT ![t] = "panicked"]
               /\ UNCHANGED bytes
  /\ UNCHANGED <<log, last, nDowngraded, args>>

\* offers.rs:104-116
ParseAndMatch(t) ==
  /\ pc[t] = "parsing"
  /\ LET o == match_parse(args[t].tlv_type,
                          parse(args[t].tlv_type, bytes[BufferSlot(t)]))
     IN /\ log' = log \o o.logs
        /\ result' = [result EXCEPT ![t] = o]
  /\ pc' = [pc EXCEPT ![t] = "done"]
  /\ UNCHANGED <<last, nDowngraded, args, bytes>>

NextConc ==
  \E t \in Threads : CallRead(t) \/ Dispatch(t) \/ ReadToEnd(t) \/ ParseAndMatch(t)

SpecConc == Init /\ [][NextConc]_vars

(***************************************************************************)
(* Properties.                                                             *)
(***************************************************************************)
\* The constructor the buffered path hands the payload of the latest read to.
Constructed ==
  IF last.tlv_type = INVOICE_REQUEST_TLV_TYPE
    THEN InvoiceRequest_try_from(last.r.data)
    ELSE Invoice_try_from(last.r.data)

BufferedRead ==
  /\ last.op = "read"
  /\ last.tlv_type \in {64, 66}
  /\ ~last.r.fails

\* C1: is_known_type(c) is true exactly for the codes 64, 66 and 68 and false
\* for every other code.
C1_IsKnownExactly ==
  last.op = "is_known_type" =>
    /\ last.ret \in BOOLEAN
    /\ last.ret <=> (last.tlv_type \in {64, 66, 68})

C1_Witness ==
  /\ last.op = "is_known_type"
  /\ last.tlv_type = 68
  /\ last.ret = TRUE

\* C2: tlv_type maps InvoiceRequest to 64, Invoice to 66 and InvoiceError to
\* 68; no message of another kind gets the same code; the code is known.
C2_TlvTypeInjective ==
  last.op = "tlv_type" =>
    /\ last.msg.kind = "InvoiceRequest" => last.ret = 64
    /\ last.msg.kind = "Invoice" => last.ret = 66
    /\ last.msg.kind = "InvoiceError" => last.ret = 68
    /\ \A m \in OffersMessage : tlv_type(m) = last.ret => m.kind = last.msg.kind
    /\ is_known_type(last.ret)

C2_Witness ==
  /\ last.op = "tlv_type"
  /\ last.msg.kind = "Invoice"
  /\ last.ret = 66

\* C3: reading the bytes write(v) produced, with the type code tlv_type(v),
\* returns Ok of a message equal to v, for the buffered kinds and for the
\* error-report kind.
C3_RoundTrip ==
  last.op = "write" =>
    LET o == read([data |-> last.ret, fails |-> FALSE], tlv_type(last.msg))
    IN /\ ~o.panicked
       /\ o.ret.ok
       /\ o.ret.val.kind = last.msg.kind
       /\ o.ret.val.body = last.msg.body
       /\ o.buffered <=> (last.msg.kind # "InvoiceError")

C3_Witness ==
  /\ last.op = "write"
  /\ last.msg.kind = "Invoice"
  /\ Len(last.ret) = 2

\* C4: when the constructor of kind 64 or 66 reports ParseError::Decode(e),
\* read returns Err(e) with that same e.
C4_DecodePropagates ==
  (BufferedRead /\ ~Constructed.ok /\ Constructed.err.class = "Decode") =>
    /\ ~last.out.panicked
    /\ ~last.out.ret.ok
    /\ last.out.ret.err = Constructed.err.e

C4_Witness ==
  /\ BufferedRead
  /\ ~Constructed.ok
  /\ Constructed.err.class = "Decode"
  /\ last.out.ret = Err("ShortRead")

\* C5: when the constructor reports invalid semantics or an invalid signature,
\* read returns Err(InvalidValue) in both cases and emits exactly one
\* trace-level log line carrying the type code passed to read.
C5_DowngradedLogged ==
  (BufferedRead /\ ~Constructed.ok /\ Constructed.err.class \in Downgraded) =>
    /\ ~last.out.panicked
    /\ ~last.out.ret.ok
    /\ last.out.ret.err = "InvalidValue"
    /\ last.emitted = 1
    /\ Len(log) >= 1
    /\ log[Len(log)].level = "Trace"
    /\ log[Len(log)].tlv_type = last.tlv_type
    /\ log[Len(log)].detail = Constructed.err.e

C5_Witness ==
  /\ BufferedRead
  /\ ~Constructed.ok
  /\ Constructed.err.class = "InvalidSignature"
  /\ last.out.ret = Err("InvalidValue")
  /\ Len(log) = 2

\* C6: a read call never panics, whatever the type code and the byte source.
C6_ReadNeverPanics ==
  last.op = "read" => ~last.out.panicked

\* C7: with type code 68, read returns the outcome of InvoiceError::read on
\* the source, without buffering, without parse and without logging.
C7_ErrorKindDirect ==
  (last.op = "read" /\ last.tlv_type = 68) =>
    LET e == InvoiceError_read(last.r)
    IN /\ ~last.out.buffered
       /\ last.out.parsed = "none"
       /\ last.emitted = 0
       /\ ~last.out.panicked
       /\ last.out.ret.ok = e.ok
       /\ e.ok => /\ last.out.ret.val.kind = "InvoiceError"
                  /\ last.out.ret.val.body = e.val
       /\ ~e.ok => last.out.ret.err = e.err

C7_Witness ==
  /\ last.op = "read"
  /\ last.tlv_type = 68
  /\ last.out.ret.ok
  /\ last.out.ret.val.body.message = <<1>>

\* C8: with a type code that is not known, read never returns a message; for
\* every payload it returns the hard decode error of ParseError::Decode and
\* writes nothing to the logger.
C8_UnknownRejected ==
  (last.op = "read" /\ ~is_known_type(last.tlv_type)) =>
    /\ ~last.out.ret.ok
    /\ last.emitted = 0
    /\ ~last.r.fails =>
         /\ ~last.out.panicked
         /\ last.out.parsed = "Decode"
         /\ last.out.ret.err = "InvalidValue"

C8_Witness ==
  /\ last.op = "read"
  /\ last.tlv_type = 65
  /\ last.r.data = <<1, 1>>
  /\ last.out.ret = Err("InvalidValue")

\* C9: the log holds one line per read call whose parse result was invalid
\* semantics or an invalid signature, and no other call adds a line.
C9_LogOnlyDowngraded ==
  /\ Len(log) = nDowngraded
  /\ last.op = "read" =>
       last.emitted = (IF last.out.parsed \in Downgraded THEN 1 ELSE 0)
  /\ last.op \in {"is_known_type", "tlv_type", "write"} => last.emitted = 0

C9_Witness ==
  /\ nDowngraded = 2
  /\ Len(log) = 2
  /\ last.op = "read"
  /\ last.out.parsed = "Decode"

\* C10: under every interleaving, a read call that has ended has the outcome
\* the same call has when run alone on its own type code and source.
C10_Independent ==
  \A t \in Threads :
    pc[t] \in {"done", "panicked"} => result[t] = read(args[t].r, args[t].tlv_type)

C10_Witness ==
  /\ pc[1] = "done"
  /\ pc[2] = "done"
  /\ args[1] # args[2]
  /\ result[1].ret.ok
  /\ result[2].parsed = "InvalidSignature"
  /\ Len(log) >= 1

====
